---- MODULE Spec2Model ----
(***************************************************************************)
(* A model of spargel_lm/text_source.py: the text sources, the operations  *)
(* on texts, and the evaluation of a source tree into a sequence of texts. *)
(*                                                                         *)
(* A text is a sequence of one-character strings.  A path is a sequence of *)
(* components, each component a text.  An optional value (None or a value) *)
(* is a sequence of length 0 or 1.                                         *)
(***************************************************************************)
EXTENDS Integers, Sequences, FiniteSets, TLC

VARIABLES
    st,         \* StripOperation applied once and twice to a text
    rep,        \* a call of ReplaceOperation.process, pass by pass
    obj,        \* the structural object given to get_texts
    this_path,  \* the this_path given to get_texts
    pc,         \* "start", "run", "done", "stopped" or "error"
    err,        \* the kind of the exception that ended the evaluation
    gens,       \* the chain of suspended/running source generators
    active,     \* the running generator (0: the consumer has control)
    calls,      \* the stack of operation.process calls in progress
    out,        \* the texts the consumer has received
    handles,    \* the file handles that are open
    log         \* history of the evaluation

engineVars == <<obj, this_path, pc, err, gens, active, calls, out, handles, log>>
vars == <<st, rep, obj, this_path, pc, err, gens, active, calls, out, handles, log>>

(***************************************************************************)
(* Bounds of the model.                                                    *)
(***************************************************************************)
MaxStripLen == 3
MaxReplaceLen == 4
MaxOps == 2

None == <<>>
Some(x) == <<x>>

SeqUpTo(S, n) == UNION {[1..k -> S] : k \in 0..n}

LF == "\n"
CR == "\r"
SP == " "

(***************************************************************************)
(* str.splitlines: the line boundaries of the model's alphabet are "\n",   *)
(* "\r" and the pair "\r\n"; str.strip(None)/str.rstrip(None) remove       *)
(* whitespace.                                                             *)
(***************************************************************************)
LineBreaks == {LF, CR}
Whitespace == {SP, LF, CR}

Range(s) == {s[i] : i \in 1..Len(s)}

\* The index of the first line boundary of text at or after i, 0 if none.
RECURSIVE FindBreak(_, _)
FindBreak(text, i) ==
    IF i > Len(text) THEN 0
    ELSE IF text[i] \in LineBreaks THEN i
    ELSE FindBreak(text, i + 1)

RECURSIVE SplitFrom(_, _, _)
SplitFrom(text, i, keepends) ==
    IF i > Len(text) THEN <<>>
    ELSE LET j == FindBreak(text, i)
         IN IF j = 0 THEN <<SubSeq(text, i, Len(text))>>
            ELSE LET eol == IF text[j] = CR /\ j < Len(text) /\ text[j + 1] = LF
                            THEN j + 1 ELSE j
                     line == IF keepends THEN SubSeq(text, i, eol)
                             ELSE SubSeq(text, i, j - 1)
                 IN <<line>> \o SplitFrom(text, eol + 1, keepends)

SplitLines(text, keepends) == SplitFrom(text, 1, keepends)

RECURSIVE Join(_, _)
Join(sep, parts) ==
    IF parts = <<>> THEN <<>>
    ELSE IF Len(parts) = 1 THEN parts[1]
    ELSE parts[1] \o sep \o Join(sep, Tail(parts))

\* The set of characters str.strip/str.rstrip remove for a chars argument.
StripSet(chars) == IF chars = None THEN Whitespace ELSE Range(chars[1])

RECURSIVE LStrip(_, _)
LStrip(text, cs) ==
    IF text # <<>> /\ text[1] \in cs THEN LStrip(Tail(text), cs) ELSE text

RECURSIVE RStrip(_, _)
RStrip(text, cs) ==
    IF text # <<>> /\ text[Len(text)] \in cs
    THEN RStrip(SubSeq(text, 1, Len(text) - 1), cs)
    ELSE text

Strip(text, cs) == RStrip(LStrip(text, cs), cs)

MapLines(F(_), lines) == [i \in 1..Len(lines) |-> F(lines[i])]

\* StripOperation.process: the sequence of texts one call yields.
StripProcess(op, text) ==
    IF op.per_line
    THEN LET S(line) == Strip(line, StripSet(op.chars))
         IN <<Join(<<LF>>, MapLines(S, SplitLines(text, FALSE)))>>
    ELSE <<Strip(text, StripSet(op.chars))>>

\* RightStripOperation.process
RightStripProcess(op, text) ==
    IF op.per_line
    THEN LET S(line) == RStrip(line, StripSet(op.chars))
         IN <<Join(<<LF>>, MapLines(S, SplitLines(text, FALSE)))>>
    ELSE <<RStrip(text, StripSet(op.chars))>>

\* A split_lines that yields the empty line for an empty text.
SplitLinesNoLess(op, text) ==
    IF text = <<>> THEN <<<<>>>> ELSE SplitLines(text, op.keep_ends)

\* SplitLinesOperation.process
SplitLinesProcess(op, text) == SplitLines(text, op.keep_ends)

(***************************************************************************)
(* Substitution.  A pattern is a text; with regex = TRUE the character "." *)
(* of a pattern matches any character but "\n" (the patterns of the model  *)
(* use no other metacharacter), with regex = FALSE every character of the  *)
(* pattern stands for itself.                                              *)
(***************************************************************************)
CharMatches(isre, p, c) == IF isre /\ p = "." THEN c # LF ELSE p = c

MatchAt(isre, old, text, i) ==
    /\ i + Len(old) - 1 <= Len(text)
    /\ \A k \in 1..Len(old) : CharMatches(isre, old[k], text[i + k - 1])

FullMatch(pattern, name) == Len(pattern) = Len(name) /\ MatchAt(TRUE, pattern, name, 1)

RECURSIVE SubstituteFrom(_, _, _, _, _)
SubstituteFrom(isre, old, new, text, i) ==
    IF i > Len(text) THEN (IF old = <<>> THEN new ELSE <<>>)
    ELSE IF old = <<>> THEN new \o <<text[i]>> \o SubstituteFrom(isre, old, new, text, i + 1)
    ELSE IF MatchAt(isre, old, text, i)
         THEN new \o SubstituteFrom(isre, old, new, text, i + Len(old))
         ELSE <<text[i]>> \o SubstituteFrom(isre, old, new, text, i + 1)

\* regex.sub(old, new, text) and text.replace(old, new): every
\* non-overlapping occurrence, leftmost first.
Substitute(op, text) == SubstituteFrom(op.regex, op.old, op.new, text, 1)

\* The state of the evaluation engine while another part is exercised.
IdleEngine ==
    /\ obj = <<>> /\ this_path = <<>> /\ pc = "idle" /\ err = ""
    /\ gens = <<>> /\ active = 0 /\ calls = <<>> /\ out = <<>>
    /\ handles = {} /\ log = <<>>

(***************************************************************************)
(* StripOperation applied to its own output.                               *)
(***************************************************************************)
StripChars == {None, Some(<<"a">>), Some(<<>>)}
StripAlphabet == {"a", "b", SP, LF}

InitStrip ==
    /\ \E chars \in StripChars, per_line \in BOOLEAN,
          text \in SeqUpTo(StripAlphabet, MaxStripLen) :
          st = [pc |-> "input",
                op |-> [type |-> "strip", chars |-> chars, per_line |-> per_line],
                text |-> text, once |-> <<>>, twice |-> <<>>]
    /\ rep = [pc |-> "idle"]
    /\ IdleEngine

StripFirst ==
    /\ st.pc = "input"
    /\ st' = [st EXCEPT !.pc = "once", !.once = StripProcess(st.op, st.text)]
    /\ UNCHANGED <<rep, engineVars>>

StripSecond ==
    /\ st.pc = "once"
    /\ Len(st.once) = 1
    /\ st' = [st EXCEPT !.pc = "twice", !.twice = StripProcess(st.op, st.once[1])]
    /\ UNCHANGED <<rep, engineVars>>

NextStrip == StripFirst \/ StripSecond

SpecStrip == InitStrip /\ [][NextStrip]_vars

(***************************************************************************)
(* ReplaceOperation.process and its loop, one pass of _apply_replace per   *)
(* step.  rep.hist is the history of the texts of the current call of      *)
(* _apply_replace (its argument, then the result of every pass), rep.runs  *)
(* the histories of the calls that have returned.                          *)
(***************************************************************************)
ReplaceOlds == {<<>>, <<"a">>, <<"a", "a">>, <<".">>, <<"a", "b">>}
ReplaceNews == {<<>>, <<"a">>, <<"b">>, <<"a", "a">>}
ReplaceAlphabet == {"a", "b", LF}

\* A pass of a rule that grows the text is not taken beyond this length.
GrowLimit == 2 * MaxReplaceLen

InitReplace ==
    /\ \E regex \in BOOLEAN, old \in ReplaceOlds, new \in ReplaceNews,
          repeat \in BOOLEAN, per_line \in BOOLEAN,
          text \in SeqUpTo(ReplaceAlphabet, MaxReplaceLen) :
          rep = [pc |-> "start",
                 op |-> [type |-> "replace", regex |-> regex, old |-> old, new |-> new,
                         repeat |-> repeat, per_line |-> per_line],
                 text |-> text, lines |-> <<>>, li |-> 0, results |-> <<>>,
                 cur |-> <<>>, last_text |-> <<>>, hist |-> <<>>, runs |-> <<>>,
                 out |-> <<>>]
    /\ st = [pc |-> "idle"]
    /\ IdleEngine

\* process: the lines _apply_replace is called on.
ReplaceProcess ==
    /\ rep.pc = "start"
    /\ rep' = [rep EXCEPT !.pc = "line", !.li = 1,
                          !.lines = IF rep.op.per_line
                                    THEN SplitLines(rep.text, FALSE)
                                    ELSE <<rep.text>>]
    /\ UNCHANGED <<st, engineVars>>

\* _apply_replace is entered with the next line.
ApplyReplaceEnter ==
    /\ rep.pc = "line"
    /\ rep.li <= Len(rep.lines)
    /\ rep' = [rep EXCEPT !.pc = "pass", !.cur = rep.lines[rep.li],
                          !.last_text = rep.lines[rep.li],
                          !.hist = <<rep.lines[rep.li]>>]
    /\ UNCHANGED <<st, engineVars>>

\* A test that compares the lengths only.
UnchangedLength(text, last_text) == Len(text) = Len(last_text)

\* The test that ends the loop of _apply_replace.
Unchanged(text, last_text) == text = last_text

\* One substitution; _apply_replace returns after it when repeat is off or
\* when the text is the text before the pass.
ReplacePass ==
    /\ rep.pc = "pass"
    /\ Len(rep.cur) <= GrowLimit
    /\ LET text == Substitute(rep.op, rep.cur)
           hist == Append(rep.hist, text)
       IN IF ~rep.op.repeat \/ Unchanged(text, rep.last_text)
          THEN rep' = [rep EXCEPT !.pc = "line", !.li = rep.li + 1, !.cur = text,
                                 !.hist = hist,
                                 !.results = Append(rep.results, text),
                                 !.runs = Append(rep.runs, hist)]
          ELSE rep' = [rep EXCEPT !.cur = text, !.last_text = text, !.hist = hist]
    /\ UNCHANGED <<st, engineVars>>

\* process yields its one text.
ReplaceYield ==
    /\ rep.pc = "line"
    /\ rep.li > Len(rep.lines)
    /\ rep' = [rep EXCEPT !.pc = "done",
                          !.out = IF rep.op.per_line
                                  THEN <<Join(<<LF>>, rep.results)>>
                                  ELSE <<rep.results[1]>>]
    /\ UNCHANGED <<st, engineVars>>

NextReplace == ReplaceProcess \/ ApplyReplaceEnter \/ ReplacePass \/ ReplaceYield

SpecReplace == InitReplace /\ [][NextReplace]_vars

(***************************************************************************)
(* Paths.  A pure path is [abs, parts]: whether it is absolute and its     *)
(* components.  pathlib drops empty and "." components when it parses a    *)
(* string and keeps "..".                                                  *)
(***************************************************************************)
DOT == <<".">>
DOTDOT == <<".", ".">>

Front(s) == SubSeq(s, 1, Len(s) - 1)

\* The names of a list of one-character components: P(<<"w", "s">>) is w/s.
P(s) == [i \in 1..Len(s) |-> <<s[i]>>]

\* The text of a relative path of one-character components: "s/o".
RECURSIVE Rel(_)
Rel(s) == IF Len(s) <= 1 THEN s ELSE <<s[1], "/">> \o Rel(Tail(s))

RECURSIVE SplitSlash(_, _)
SplitSlash(text, acc) ==
    IF text = <<>> THEN <<acc>>
    ELSE IF Head(text) = "/" THEN <<acc>> \o SplitSlash(Tail(text), <<>>)
    ELSE SplitSlash(Tail(text), Append(acc, Head(text)))

\* Path(text)
ParsePath(text) ==
    [abs |-> text # <<>> /\ text[1] = "/",
     parts |-> SelectSeq(SplitSlash(text, <<>>), LAMBDA c : c # <<>> /\ c # DOT)]

\* left / right
JoinPath(left, right) ==
    IF right.abs THEN right
    ELSE [abs |-> left.abs, parts |-> left.parts \o right.parts]

\* str(path) of an absolute path
RECURSIVE FormatParts(_)
FormatParts(parts) ==
    IF parts = <<>> THEN <<>>
    ELSE <<"/">> \o Head(parts) \o FormatParts(Tail(parts))

Format(path) == IF path.parts = <<>> THEN <<"/">> ELSE FormatParts(path.parts)

(***************************************************************************)
(* The file system: a directory lists its entries in scandir order; a file *)
(* has a content, the set of encodings its bytes are valid under, the      *)
(* array it holds if it holds a JSON array, and the stream it decompresses *)
(* to if it is a gzip file.                                                *)
(***************************************************************************)
Dir(names) == [kind |-> "dir", names |-> P(names)]
File(valid, content, json, gz) ==
    [kind |-> "file", valid |-> valid, content |-> content, json |-> json, gz |-> gz]
Encodings == {"utf-8", "latin-1"}
TextFile(content) == File(Encodings, content, None, None)
OpsFile(array) == File(Encodings, <<"[", "]">>, Some(array), None)
GzipFile(content) ==
    File({"latin-1"}, <<"?">>, None, Some([valid |-> Encodings, content |-> content]))

\* Operation descriptors, every field given.
ReadFileOp(base, encoding, compression) ==
    [type |-> "read_file", base |-> base, encoding |-> encoding,
     compression |-> compression]
RefOp(base, paths) == [type |-> "ref", base |-> base, paths |-> paths]
ReplaceOp(regex, old, new, repeat, per_line) ==
    [type |-> "replace", regex |-> regex, old |-> old, new |-> new,
     repeat |-> repeat, per_line |-> per_line]
RStripOp(chars, per_line) == [type |-> "rstrip", chars |-> chars, per_line |-> per_line]
SplitLinesOp(keep_ends) == [type |-> "split_lines", keep_ends |-> keep_ends]
StripOp(chars, per_line) == [type |-> "strip", chars |-> chars, per_line |-> per_line]
\* Descriptors the tagged union rejects: an unknown type, no type.
BogusOp == [type |-> "bogus"]
UntypedOp == [comment |-> <<>>]

Cwd == P(<<"w">>)

FS ==
    (<<>> :> Dir(<<"w">>))
    @@ (P(<<"w">>) :> Dir(<<"f", "s", "u", "k", "e", "z", "o", "b", "n", "c">>))
    @@ (P(<<"w", "c">>) :> TextFile(<<"{", "}">>))
    @@ (P(<<"w", "f">>) :> TextFile(<<SP, "x", LF, "y", LF>>))
    @@ (P(<<"w", "u">>) :> File({"latin-1"}, <<"?">>, None, None))
    @@ (P(<<"w", "z">>) :> GzipFile(<<"f">>))
    @@ (P(<<"w", "e">>) :> TextFile(<<>>))
    @@ (P(<<"w", "n">>) :> TextFile(<<"n">>))
    @@ (P(<<"w", "o">>) :> OpsFile(<<StripOp(None, FALSE)>>))
    @@ (P(<<"w", "b">>) :> OpsFile(<<SplitLinesOp(FALSE), BogusOp>>))
    @@ (P(<<"w", "k">>) :> Dir(<<"f">>))
    @@ (P(<<"w", "k", "f">>) :> TextFile(<<"k">>))
    @@ (P(<<"w", "s">>) :> Dir(<<"d", "f", "o", "p">>))
    @@ (P(<<"w", "s", "f">>) :> TextFile(<<"f", LF>>))
    @@ (P(<<"w", "s", "o">>) :> OpsFile(<<ReadFileOp(DOT, None, None)>>))
    @@ (P(<<"w", "s", "p">>) :> OpsFile(<<RefOp(DOT, <<<<"o">>>>), SplitLinesOp(FALSE)>>))
    @@ (P(<<"w", "s", "d">>) :> Dir(<<"f", "g">>))
    @@ (P(<<"w", "s", "d", "f">>) :> TextFile(<<"d">>))
    @@ (P(<<"w", "s", "d", "g">>) :> TextFile(<<"g">>))

IsFile(parts) == parts \in DOMAIN FS /\ FS[parts].kind = "file"
IsDir(parts) == parts \in DOMAIN FS /\ FS[parts].kind = "dir"

\* The lexical normal form of the components of an absolute path.
RECURSIVE Normalize(_, _)
Normalize(acc, rest) ==
    IF rest = <<>> THEN acc
    ELSE IF Head(rest) = DOTDOT
         THEN Normalize(IF acc = <<>> THEN acc ELSE Front(acc), Tail(rest))
         ELSE Normalize(Append(acc, Head(rest)), Tail(rest))

\* Path(path).resolve(): absolute (against the working directory), normal.
Resolve(path) == Normalize(<<>>, IF path.abs THEN path.parts ELSE Cwd \o path.parts)

\* _resolve_parent
ResolveParent(path) ==
    LET p == Resolve(path)
    IN [abs |-> TRUE, parts |-> IF IsFile(p) THEN Front(p) ELSE p]

\* The entry the operating system finds for an absolute path, None if
\* there is none: every component but the last must lead through a directory.
RECURSIVE Lookup(_, _)
Lookup(acc, rest) ==
    IF rest = <<>> THEN (IF acc \in DOMAIN FS THEN Some(acc) ELSE None)
    ELSE IF ~IsDir(acc) THEN None
    ELSE IF Head(rest) = DOTDOT
         THEN Lookup(IF acc = <<>> THEN acc ELSE Front(acc), Tail(rest))
         ELSE Lookup(Append(acc, Head(rest)), Tail(rest))

Locate(path) == Lookup(<<>>, path.parts)

(***************************************************************************)
(* Validation of structural objects against the tagged unions.             *)
(***************************************************************************)
OperationTypes == {"read_file", "ref", "replace", "rstrip", "split_lines", "strip"}

Required(type) ==
    CASE type = "ref" -> {"paths"}
      [] type = "replace" -> {"old", "new"}
      [] type = "text" -> {"texts"}
      [] type = "process" -> {"operations", "sources"}
      [] OTHER -> {}

\* OperationWrapperModel.model_validate({"operation": o}) succeeds.
ValidOperation(o) ==
    /\ "type" \in DOMAIN o
    /\ o.type \in OperationTypes
    /\ Required(o.type) \subseteq DOMAIN o

\* TextSourceWrapperModel.model_validate({"source": s}) succeeds.
RECURSIVE ValidSource(_)
ValidSource(s) ==
    /\ "type" \in DOMAIN s
    /\ s.type \in {"find", "text", "process"}
    /\ Required(s.type) \subseteq DOMAIN s
    /\ s.type = "process" =>
          /\ \A i \in 1..Len(s.operations) : ValidOperation(s.operations[i])
          /\ \A i \in 1..Len(s.sources) : ValidSource(s.sources[i])

(***************************************************************************)
(* The operations that neither open a file nor load another chain.         *)
(***************************************************************************)
RECURSIVE RepeatReplace(_, _)
RepeatReplace(op, last_text) ==
    LET text == Substitute(op, last_text)
    IN IF Unchanged(text, last_text) THEN text ELSE RepeatReplace(op, text)

\* ReplaceOperation._apply_replace
ApplyReplace(op, text) ==
    IF op.repeat THEN RepeatReplace(op, text) ELSE Substitute(op, text)

\* ReplaceOperation.process
ReplaceOperationProcess(op, text) ==
    IF op.per_line
    THEN LET R(line) == ApplyReplace(op, line)
         IN <<Join(<<LF>>, MapLines(R, SplitLines(text, FALSE)))>>
    ELSE <<ApplyReplace(op, text)>>

Opening(op) == op.type \in {"read_file", "ref"}

\* operation.process(text, this_path) of an operation that is not Opening.
PureProcess(op, text) ==
    CASE op.type = "replace" -> ReplaceOperationProcess(op, text)
      [] op.type = "rstrip" -> RightStripProcess(op, text)
      [] op.type = "split_lines" -> SplitLinesProcess(op, text)
      [] op.type = "strip" -> StripProcess(op, text)

(***************************************************************************)
(* The evaluation engine.                                                  *)
(*                                                                         *)
(* gens[1] is the generator of the top-level source, gens[k + 1] the       *)
(* generator of the child source gens[k] is iterating.  calls is the stack *)
(* of the ReadFileOperation.process and ReferenceOperation.process         *)
(* generators the running ProcessSource is draining (tmp.extend consumes   *)
(* each of them to its end).                                               *)
(***************************************************************************)
DefaultEncoding == "utf-8"

Truthy(pattern) == pattern # None /\ pattern[1] # <<>>

NewGen(src, ctx) ==
    [src |-> src, ctx |-> ctx,
     pc |-> CASE src.type = "text" -> "yield"
              [] src.type = "find" -> "path"
              [] OTHER -> "source",
     i |-> 1, stack |-> <<>>, root |-> <<>>, cur |-> <<>>, files |-> <<>>,
     texts |-> <<>>, oi |-> 1, ti |-> 1, tmp |-> <<>>, yi |-> 1]

\* origin: None for an operation of the configuration, Some(file) for an
\* operation loaded from a referenced file.
NewCall(op, text, ctx, origin) ==
    [kind |-> op.type, op |-> op, text |-> text, ctx |-> ctx, origin |-> origin,
     pc |-> IF op.type = "read_file" THEN "open" ELSE "path",
     pi |-> 1, ref_path |-> <<>>, file |-> <<>>, array |-> <<>>,
     texts |-> <<text>>, oi |-> 1, ti |-> 1, tmp |-> <<>>,
     h |-> 0, res |-> <<>>]

\* tmp = []
BeginOp(f) == [f EXCEPT !.tmp = <<>>, !.ti = 1, !.pc = "item"]
\* An extend that puts the new texts in front.
ExtendTmpFront(tmp, res) == res \o tmp
\* tmp.extend(operation.process(text, path))
ExtendTmp(tmp, res) == tmp \o res
Extend(f, res) == [f EXCEPT !.tmp = ExtendTmp(f.tmp, res), !.ti = f.ti + 1]
\* texts = tmp
EndOp(f) == [f EXCEPT !.texts = f.tmp, !.oi = f.oi + 1, !.pc = "op"]

EmptyLog ==
    [applied |-> 0, reads |-> 0, warnings |-> 0, calls |-> {}, resolved |-> {},
     found |-> {}, pruned |-> {}, absent |-> {}]

\* A finished call of operation.process: file is the file a read_file
\* operation opened, n the number of texts the call yielded.
Logged(op, text, file, res) == [op |-> op, text |-> text, file |-> file, n |-> Len(res)]

G == gens[active]
C == calls[Len(calls)]
InSource(type, at) ==
    /\ pc = "run" /\ active >= 1 /\ calls = <<>>
    /\ G.src.type = type /\ G.pc = at
InCall(kind, at) ==
    /\ pc = "run" /\ calls # <<>>
    /\ C.kind = kind /\ C.pc = at

\* The running generator, left as g, yields text to its consumer.
YieldFrom(g, text) ==
    /\ IF active = 1
       THEN /\ gens' = [gens EXCEPT ![1] = g]
            /\ out' = Append(out, text)
       ELSE /\ gens' = [gens EXCEPT ![active] = g,
                                    ![active - 1] = [@ EXCEPT !.texts = <<text>>,
                                                              !.oi = 1, !.pc = "op"]]
            /\ out' = out
    /\ active' = active - 1
    /\ pc' = pc

\* An exception leaves every generator.
Raise(kind) ==
    /\ pc' = "error" /\ err' = kind
    /\ gens' = <<>> /\ calls' = <<>> /\ active' = 0
    /\ out' = out

\* The generator of the call on top of the stack ends, having yielded res.
ReturnFrom(res) ==
    IF Len(calls) = 1
    THEN /\ calls' = <<>>
         /\ gens' = [gens EXCEPT ![active] = Extend(@, res)]
    ELSE /\ calls' = [Front(calls) EXCEPT ![Len(calls) - 1] = Extend(@, res)]
         /\ gens' = gens

Fixed == UNCHANGED <<st, rep, obj, this_path>>

\* get_texts: the object is validated when the consumer first pulls.
Validate ==
    /\ pc = "start"
    /\ IF ValidSource(obj)
       THEN /\ gens' = <<NewGen(obj, ParsePath(this_path))>>
            /\ active' = 1 /\ pc' = "run"
            /\ UNCHANGED <<err, calls, out>>
       ELSE Raise("validation")
    /\ UNCHANGED <<handles, log>> /\ Fixed

\* The consumer asks for the next text.
Pull ==
    /\ pc = "run" /\ active = 0
    /\ active' = 1
    /\ UNCHANGED <<pc, err, gens, calls, out, handles, log>> /\ Fixed

\* The consumer stops pulling and drops the generator.
Stop ==
    /\ pc = "run" /\ active = 0
    /\ pc' = "stopped" /\ gens' = <<>>
    /\ UNCHANGED <<err, active, calls, out, handles, log>> /\ Fixed

\* A source generator ends: its consumer moves on.
SourceReturn ==
    /\ \/ InSource("text", "yield") /\ G.i > Len(G.src.texts)
       \/ InSource("find", "path") /\ G.i > Len(G.src.paths)
       \/ InSource("process", "source") /\ G.i > Len(G.src.sources)
    /\ IF active = 1
       THEN gens' = <<>> /\ pc' = "done"
       ELSE /\ gens' = [SubSeq(gens, 1, active - 1) EXCEPT
                           ![active - 1] = [@ EXCEPT !.i = @ + 1, !.pc = "source"]]
            /\ pc' = pc
    /\ active' = active - 1
    /\ UNCHANGED <<err, calls, out, handles, log>> /\ Fixed

\* PlainTextSource.get_texts
PlainTextYield ==
    /\ InSource("text", "yield")
    /\ G.i <= Len(G.src.texts)
    /\ YieldFrom([G EXCEPT !.i = @ + 1], G.src.texts[G.i])
    /\ UNCHANGED <<err, calls, handles, log>> /\ Fixed

(***************************************************************************)
(* FindFileSource: os.walk visits a directory, the caller prunes the       *)
(* subdirectories in place and yields the files, and os.walk descends into *)
(* what is left.  os.walk is called without onerror: a directory it cannot *)
(* list contributes nothing.                                               *)
(***************************************************************************)
Child(path, name) == [abs |-> path.abs, parts |-> Append(path.parts, name)]

\* A walk that prunes nothing.
PruneDirsNone(dirs, dir_pattern) == dirs

\* dirs[:] = [d for d in dirs if dir_pattern.fullmatch(d)]
PruneDirs(dirs, dir_pattern) ==
    IF Truthy(dir_pattern)
    THEN SelectSeq(dirs, LAMBDA d : FullMatch(dir_pattern[1], d))
    ELSE dirs

\* the test of a file name in _search_dir
AcceptsFile(file_pattern, file) ==
    IF Truthy(file_pattern) THEN FullMatch(file_pattern[1], file) ELSE TRUE

FindNextPath ==
    /\ InSource("find", "path")
    /\ G.i <= Len(G.src.paths)
    /\ LET base_path == JoinPath(ResolveParent(G.ctx), ParsePath(G.src.base))
           dir == JoinPath(base_path, ParsePath(G.src.paths[G.i]))
       IN gens' = [gens EXCEPT ![active] =
                     [G EXCEPT !.pc = "walk", !.stack = <<dir>>, !.root = dir]]
    /\ UNCHANGED <<pc, err, active, calls, out, handles, log>> /\ Fixed

WalkDir ==
    /\ InSource("find", "walk")
    /\ G.stack # <<>>
    /\ LET top == Head(G.stack)
           loc == Locate(top)
       IN IF loc = None \/ ~IsDir(loc[1])
          THEN /\ gens' = [gens EXCEPT ![active] = [G EXCEPT !.stack = Tail(G.stack)]]
               /\ log' = [log EXCEPT !.absent = @ \cup {"find"}]
          ELSE LET names == FS[loc[1]].names
                   dirs == SelectSeq(names, LAMBDA n : IsDir(Append(loc[1], n)))
                   files == SelectSeq(names, LAMBDA n : IsFile(Append(loc[1], n)))
                   kept == PruneDirs(dirs, G.src.dir_pattern)
               IN /\ gens' = [gens EXCEPT ![active] =
                                [G EXCEPT !.pc = "files", !.cur = top, !.files = files,
                                          !.stack = [j \in 1..Len(kept) |-> Child(top, kept[j])]
                                                    \o Tail(G.stack)]]
                  /\ log' = [log EXCEPT !.pruned = @ \cup
                                {Child(top, dirs[j]) : j \in {x \in 1..Len(dirs) :
                                     dirs[x] \notin Range(kept)}}]
    /\ UNCHANGED <<pc, err, active, calls, out, handles>> /\ Fixed

WalkEnd ==
    /\ InSource("find", "walk")
    /\ G.stack = <<>>
    /\ gens' = [gens EXCEPT ![active] = [G EXCEPT !.pc = "path", !.i = @ + 1]]
    /\ UNCHANGED <<pc, err, active, calls, out, handles, log>> /\ Fixed

FindYieldFile ==
    /\ InSource("find", "files")
    /\ G.files # <<>>
    /\ AcceptsFile(G.src.file_pattern, Head(G.files))
    /\ LET path == Child(G.cur, Head(G.files))
       IN /\ YieldFrom([G EXCEPT !.files = Tail(@)], Format(path))
          /\ log' = [log EXCEPT !.found = @ \cup
                        {[src |-> G.src, root |-> G.root, path |-> path]}]
    /\ UNCHANGED <<err, calls, handles>> /\ Fixed

FindSkipFile ==
    /\ InSource("find", "files")
    /\ G.files # <<>>
    /\ ~AcceptsFile(G.src.file_pattern, Head(G.files))
    /\ gens' = [gens EXCEPT ![active] = [G EXCEPT !.files = Tail(@)]]
    /\ UNCHANGED <<pc, err, active, calls, out, handles, log>> /\ Fixed

FindFilesEnd ==
    /\ InSource("find", "files")
    /\ G.files = <<>>
    /\ gens' = [gens EXCEPT ![active] = [G EXCEPT !.pc = "walk"]]
    /\ UNCHANGED <<pc, err, active, calls, out, handles, log>> /\ Fixed

(***************************************************************************)
(* ProcessSource.get_texts                                                 *)
(***************************************************************************)
\* for source in self.sources: the child generator is created and pulled.
PSNextSource ==
    /\ InSource("process", "source")
    /\ G.i <= Len(G.src.sources)
    /\ gens' = Append([gens EXCEPT ![active] = [G EXCEPT !.pc = "pull"]],
                      NewGen(G.src.sources[G.i], G.ctx))
    /\ active' = active + 1
    /\ UNCHANGED <<pc, err, calls, out, handles, log>> /\ Fixed

\* for operation in self.operations
PSNextOp ==
    /\ InSource("process", "op")
    /\ G.oi <= Len(G.src.operations)
    /\ gens' = [gens EXCEPT ![active] = BeginOp(G)]
    /\ UNCHANGED <<pc, err, active, calls, out, handles, log>> /\ Fixed

\* the chain is through: yield from texts
PSChainEnd ==
    /\ InSource("process", "op")
    /\ G.oi > Len(G.src.operations)
    /\ gens' = [gens EXCEPT ![active] = [G EXCEPT !.pc = "yield", !.yi = 1]]
    /\ UNCHANGED <<pc, err, active, calls, out, handles, log>> /\ Fixed

\* operation.process(text, this_path) of an operation that returns at once
PSApply ==
    /\ InSource("process", "item")
    /\ G.ti <= Len(G.texts)
    /\ LET op == G.src.operations[G.oi]
           text == G.texts[G.ti]
       IN /\ ~Opening(op)
          /\ gens' = [gens EXCEPT ![active] = Extend(G, PureProcess(op, text))]
          /\ log' = [log EXCEPT !.applied = @ + 1,
                                !.calls = @ \cup {Logged(op, text, None, PureProcess(op, text))}]
    /\ UNCHANGED <<pc, err, active, calls, out, handles>> /\ Fixed

\* operation.process(text, this_path) of a read_file or ref operation
PSCall ==
    /\ InSource("process", "item")
    /\ G.ti <= Len(G.texts)
    /\ LET op == G.src.operations[G.oi]
       IN /\ Opening(op)
          /\ calls' = <<NewCall(op, G.texts[G.ti], G.ctx, None)>>
          /\ log' = [log EXCEPT !.applied = @ + 1]
    /\ UNCHANGED <<pc, err, gens, active, out, handles>> /\ Fixed

\* texts = tmp
PSEndOp ==
    /\ InSource("process", "item")
    /\ G.ti > Len(G.texts)
    /\ gens' = [gens EXCEPT ![active] = EndOp(G)]
    /\ UNCHANGED <<pc, err, active, calls, out, handles, log>> /\ Fixed

\* yield from texts
PSYield ==
    /\ InSource("process", "yield")
    /\ G.yi <= Len(G.texts)
    /\ YieldFrom([G EXCEPT !.yi = @ + 1], G.texts[G.yi])
    /\ UNCHANGED <<err, calls, handles, log>> /\ Fixed

\* the next text of the child source is asked for
PSPull ==
    /\ InSource("process", "yield")
    /\ G.yi > Len(G.texts)
    /\ gens' = [gens EXCEPT ![active] = [G EXCEPT !.pc = "pull"]]
    /\ active' = active + 1
    /\ UNCHANGED <<pc, err, calls, out, handles, log>> /\ Fixed

(***************************************************************************)
(* ReadFileOperation.process                                               *)
(***************************************************************************)
\* What open or gzip.open reads from: the bytes of the file, or the stream a
\* gzip file decompresses to; None for gzip.open on a file that is no gzip
\* file.
Stream(file, op) ==
    IF op.compression = None
    THEN Some([valid |-> file.valid, content |-> file.content])
    ELSE file.gz

Decodable(file, op) ==
    (IF op.encoding = None THEN DefaultEncoding ELSE op.encoding[1])
        \in Stream(file, op)[1].valid

\* The directory an operation resolves its relative paths against.
ContextDir(ctx) == ResolveParent(ctx)

\* A resolution of a relative path by an operation: the file the operation
\* was loaded from, which of its paths, and the directory it resolved against.
Resolved(c) ==
    [origin |-> c.origin, kind |-> c.kind, pi |-> c.pi, dir |-> ContextDir(c.ctx).parts]

\* path = ...; f = gzip.open(path, "rt", ...) or open(path, "r", ...)
ReadOpen ==
    /\ InCall("read_file", "open")
    /\ LET path == JoinPath(JoinPath(ContextDir(C.ctx), ParsePath(C.op.base)),
                            ParsePath(C.text))
           loc == Locate(path)
       IN IF loc # None /\ IsFile(loc[1])
          THEN /\ calls' = [calls EXCEPT ![Len(calls)] =
                              [C EXCEPT !.pc = "read", !.file = loc[1],
                                        !.h = log.reads + 1]]
               /\ handles' = handles \cup {[id |-> log.reads + 1, path |-> loc[1]]}
               /\ log' = [log EXCEPT !.reads = @ + 1,
                                     !.resolved = @ \cup {Resolved(C)}]
               /\ UNCHANGED <<pc, err, gens, active, out>>
          ELSE /\ Raise("io")
               /\ handles' = handles
               /\ log' = [log EXCEPT !.resolved = @ \cup {Resolved(C)},
                                     !.absent = @ \cup (IF loc = None THEN {"read_file"}
                                                        ELSE {})]
    /\ Fixed

\* yield f.read()
ReadYield ==
    /\ InCall("read_file", "read")
    /\ Stream(FS[C.file], C.op) # None
    /\ Decodable(FS[C.file], C.op)
    /\ calls' = [calls EXCEPT ![Len(calls)] =
                    [C EXCEPT !.pc = "yielded",
                              !.res = <<Stream(FS[C.file], C.op)[1].content>>]]
    /\ UNCHANGED <<pc, err, gens, active, out, handles, log>> /\ Fixed

\* A read whose UnicodeDecodeError is not caught.
DecodeFailureRaised == Raise("decode")

\* What f.read() does on bytes the encoding cannot decode: the
\* UnicodeDecodeError is caught and the generator ends.
DecodeFailure ==
    /\ ReturnFrom(<<>>)
    /\ UNCHANGED <<pc, err, active, out>>

\* except UnicodeDecodeError: logger.warning(...)
ReadDecodeError ==
    /\ InCall("read_file", "read")
    /\ Stream(FS[C.file], C.op) # None
    /\ ~Decodable(FS[C.file], C.op)
    /\ DecodeFailure
    /\ log' = [log EXCEPT !.warnings = @ + 1,
                          !.calls = @ \cup {Logged(C.op, C.text, Some(C.file), <<>>)}]
    /\ UNCHANGED handles /\ Fixed

\* f.read() of gzip.open on a file that is no gzip file: the BadGzipFile
\* (an OSError) is not caught, and f stays open.
ReadBadGzip ==
    /\ InCall("read_file", "read")
    /\ Stream(FS[C.file], C.op) = None
    /\ Raise("io")
    /\ UNCHANGED <<handles, log>> /\ Fixed

\* f.close(), after the consumer has taken the text
ReadClose ==
    /\ InCall("read_file", "yielded")
    /\ handles' = {h \in handles : h.id # C.h}
    /\ ReturnFrom(C.res)
    /\ log' = [log EXCEPT !.calls = @ \cup {Logged(C.op, C.text, Some(C.file), C.res)}]
    /\ UNCHANGED <<pc, err, active, out>> /\ Fixed

\* A handle no generator refers to any more may be closed by the runtime.
Finalize ==
    /\ pc \in {"run", "done", "error", "stopped"}
    /\ \E h \in handles :
          /\ \A j \in 1..Len(calls) : calls[j].h # h.id
          /\ handles' = handles \ {h}
    /\ UNCHANGED <<pc, err, gens, active, calls, out, log>> /\ Fixed

(***************************************************************************)
(* ReferenceOperation.process and _get_operations                          *)
(***************************************************************************)
\* A reference that hands its own this_path down.
ChainContextCaller(this_path_, ref_path) == this_path_

\* The this_path the operations of a referenced chain are given.
ChainContext(this_path_, ref_path) == ref_path

\* ref_path = ...; _get_operations opens the file and loads the array
RefNextPath ==
    /\ InCall("ref", "path")
    /\ C.pi <= Len(C.op.paths)
    /\ LET ref_path == JoinPath(JoinPath(ContextDir(C.ctx), ParsePath(C.op.base)),
                                ParsePath(C.op.paths[C.pi]))
           loc == Locate(ref_path)
       IN IF loc # None /\ IsFile(loc[1]) /\ FS[loc[1]].json # None
          THEN /\ calls' = [calls EXCEPT ![Len(calls)] =
                              [C EXCEPT !.pc = "op", !.ref_path = ref_path,
                                        !.file = loc[1], !.oi = 1,
                                        !.array = FS[loc[1]].json[1]]]
               /\ log' = [log EXCEPT !.resolved = @ \cup {Resolved(C)}]
               /\ UNCHANGED <<pc, err, gens, active, out>>
          ELSE /\ Raise(IF loc # None /\ IsFile(loc[1]) THEN "json" ELSE "io")
               /\ log' = [log EXCEPT !.resolved = @ \cup {Resolved(C)},
                                     !.absent = @ \cup (IF loc = None THEN {"ref"} ELSE {})]
    /\ UNCHANGED handles /\ Fixed

\* the next element of the array is validated when the loop asks for it
RefNextOp ==
    /\ InCall("ref", "op")
    /\ C.oi <= Len(C.array)
    /\ IF ValidOperation(C.array[C.oi])
       THEN /\ calls' = [calls EXCEPT ![Len(calls)] = BeginOp(C)]
            /\ UNCHANGED <<pc, err, gens, active, out>>
       ELSE Raise("validation")
    /\ UNCHANGED <<handles, log>> /\ Fixed

\* the array is through: the next path
RefEndPath ==
    /\ InCall("ref", "op")
    /\ C.oi > Len(C.array)
    /\ calls' = [calls EXCEPT ![Len(calls)] = [C EXCEPT !.pc = "path", !.pi = @ + 1]]
    /\ UNCHANGED <<pc, err, gens, active, out, handles, log>> /\ Fixed

RefApply ==
    /\ InCall("ref", "item")
    /\ C.ti <= Len(C.texts)
    /\ LET op == C.array[C.oi]
           text == C.texts[C.ti]
       IN /\ ~Opening(op)
          /\ calls' = [calls EXCEPT ![Len(calls)] = Extend(C, PureProcess(op, text))]
          /\ log' = [log EXCEPT !.applied = @ + 1,
                                !.calls = @ \cup {Logged(op, text, None, PureProcess(op, text))}]
    /\ UNCHANGED <<pc, err, gens, active, out, handles>> /\ Fixed

\* operation.process(text, ref_path)
RefCall ==
    /\ InCall("ref", "item")
    /\ C.ti <= Len(C.texts)
    /\ LET op == C.array[C.oi]
       IN /\ Opening(op)
          /\ calls' = Append(calls, NewCall(op, C.texts[C.ti],
                                            ChainContext(C.ctx, C.ref_path),
                                            Some(C.file)))
          /\ log' = [log EXCEPT !.applied = @ + 1]
    /\ UNCHANGED <<pc, err, gens, active, out, handles>> /\ Fixed

RefEndOp ==
    /\ InCall("ref", "item")
    /\ C.ti > Len(C.texts)
    /\ calls' = [calls EXCEPT ![Len(calls)] = EndOp(C)]
    /\ UNCHANGED <<pc, err, gens, active, out, handles, log>> /\ Fixed

\* yield from texts, drained by the caller's tmp.extend
RefReturn ==
    /\ InCall("ref", "path")
    /\ C.pi > Len(C.op.paths)
    /\ ReturnFrom(C.texts)
    /\ log' = [log EXCEPT !.calls = @ \cup {Logged(C.op, C.text, None, C.texts)}]
    /\ UNCHANGED <<pc, err, active, out, handles>> /\ Fixed

(***************************************************************************)
(* The configurations the engine is run on.                                *)
(***************************************************************************)
PlainText(texts) == [type |-> "text", texts |-> texts]
FindFile(base, paths, file_pattern, dir_pattern) ==
    [type |-> "find", base |-> base, paths |-> paths,
     file_pattern |-> file_pattern, dir_pattern |-> dir_pattern]
Process(operations, sources) ==
    [type |-> "process", operations |-> operations, sources |-> sources]

OperationPool ==
    {ReadFileOp(DOT, None, None),
     ReadFileOp(<<"s">>, Some("latin-1"), None),
     ReadFileOp(DOT, None, Some("gzip")),
     SplitLinesOp(FALSE),
     StripOp(None, FALSE),
     RStripOp(None, TRUE),
     ReplaceOp(FALSE, <<"u">>, <<"f">>, TRUE, FALSE),
     RefOp(DOT, <<Rel(<<"s", "o">>)>>),
     RefOp(DOT, <<<<"o">>, Rel(<<"s", "p">>)>>),
     RefOp(<<"s">>, <<<<"p">>, DOTDOT \o <<"/", "o">>>>),
     RefOp(DOT, <<<<"b">>>>),
     RefOp(DOT, <<<<"n">>>>),
     RefOp(DOT, <<<<"m">>>>),
     BogusOp}

SourcesPool ==
    {<<PlainText(<<<<"u">>, <<"f", LF, "u">>, <<"f">>>>)>>,
     <<PlainText(<<<<"f">>>>), PlainText(<<<<"e">>, <<"f">>>>)>>,
     <<PlainText(<<<<SP, "f", SP>>, <<>>>>)>>,
     <<PlainText(<<<<"z">>, <<"f">>>>)>>,
     <<FindFile(DOT, <<<<"s">>>>, Some(<<"f">>), Some(<<"d">>))>>,
     <<FindFile(DOT, <<<<"m">>>>, None, None), PlainText(<<<<"f">>>>)>>,
     <<Process(<<SplitLinesOp(FALSE)>>, <<PlainText(<<<<"f", LF, "m">>>>)>>)>>,
     <<PlainText(<<<<"f">>>>), Process(<<RefOp(DOT, <<<<"b">>>>)>>,
                                        <<PlainText(<<<<"f">>>>)>>)>>,
     <<PlainText(<<<<"f">>>>), UntypedOp>>,
     <<>>}

FindPool ==
    {FindFile(base, paths, file_pattern, dir_pattern) :
        base \in {DOT, <<"s">>},
        paths \in {<<DOT>>, <<<<"k">>>>, <<<<"m">>, <<"d">>>>},
        file_pattern \in {None, Some(<<>>), Some(<<"f">>)},
        dir_pattern \in {None, Some(<<>>), Some(<<"s">>), Some(<<"d">>), Some(DOT)}}

Objects ==
    {Process(operations, sources) :
        operations \in SeqUpTo(OperationPool, MaxOps), sources \in SourcesPool}
    \cup FindPool
    \cup {PlainText(<<<<"a">>, <<"b">>>>), BogusOp, UntypedOp}

ThisPaths == {DOT, <<"c">>, <<"s">>}

Init ==
    /\ obj \in Objects
    /\ this_path \in ThisPaths
    /\ pc = "start" /\ err = ""
    /\ gens = <<>> /\ active = 0 /\ calls = <<>> /\ out = <<>>
    /\ handles = {} /\ log = EmptyLog
    /\ st = [pc |-> "idle"] /\ rep = [pc |-> "idle"]

Next ==
    \/ Validate \/ Pull \/ Stop \/ SourceReturn \/ PlainTextYield
    \/ FindNextPath \/ WalkDir \/ WalkEnd \/ FindYieldFile \/ FindSkipFile \/ FindFilesEnd
    \/ PSNextSource \/ PSNextOp \/ PSChainEnd \/ PSApply \/ PSCall \/ PSEndOp
    \/ PSYield \/ PSPull
    \/ ReadOpen \/ ReadYield \/ ReadDecodeError \/ ReadBadGzip \/ ReadClose \/ Finalize
    \/ RefNextPath \/ RefNextOp \/ RefEndPath \/ RefApply \/ RefCall \/ RefEndOp
    \/ RefReturn

Spec == Init /\ [][Next]_vars

(***************************************************************************)
(* What a source is expected to yield, as a function of the configuration  *)
(* and the file system.  With absent = TRUE the texts that name a file the *)
(* encoding cannot decode are taken out of the batch of a read_file        *)
(* operation before it is applied.                                         *)
(***************************************************************************)
RECURSIVE Flatten(_)
Flatten(seqs) == IF seqs = <<>> THEN <<>> ELSE Head(seqs) \o Flatten(Tail(seqs))

TargetOf(op, text, ctx) ==
    Locate(JoinPath(JoinPath(ResolveParent(ctx), ParsePath(op.base)), ParsePath(text)))

ReadableTarget(op, text, ctx) ==
    LET loc == TargetOf(op, text, ctx)
    IN IF loc # None /\ IsFile(loc[1]) /\ Stream(FS[loc[1]], op) # None
       THEN Decodable(FS[loc[1]], op)
       ELSE FALSE

RECURSIVE ExpectedOp(_, _, _, _)
RECURSIVE ExpectedBatch(_, _, _, _)
RECURSIVE ExpectedFold(_, _, _, _)
RECURSIVE ExpectedRef(_, _, _, _, _)

ExpectedOp(op, text, ctx, absent) ==
    CASE op.type = "read_file" ->
            IF ReadableTarget(op, text, ctx)
            THEN <<Stream(FS[TargetOf(op, text, ctx)[1]], op)[1].content>>
            ELSE <<>>
      [] op.type = "ref" -> ExpectedRef(op, op.paths, <<text>>, ctx, absent)
      [] OTHER -> PureProcess(op, text)

ExpectedBatch(op, batch, ctx, absent) ==
    LET kept == IF absent /\ op.type = "read_file"
                THEN SelectSeq(batch, LAMBDA t : ReadableTarget(op, t, ctx))
                ELSE batch
    IN Flatten([i \in 1..Len(kept) |-> ExpectedOp(op, kept[i], ctx, absent)])

ExpectedFold(ops, batch, ctx, absent) ==
    IF ops = <<>> THEN batch
    ELSE ExpectedFold(Tail(ops), ExpectedBatch(Head(ops), batch, ctx, absent), ctx, absent)

ExpectedRef(op, paths, batch, ctx, absent) ==
    IF paths = <<>> THEN batch
    ELSE LET ref_path == JoinPath(JoinPath(ResolveParent(ctx), ParsePath(op.base)),
                                  ParsePath(Head(paths)))
             loc == Locate(ref_path)
             array == IF loc # None /\ IsFile(loc[1]) /\ FS[loc[1]].json # None
                      THEN FS[loc[1]].json[1] ELSE <<>>
         IN ExpectedRef(op, Tail(paths), ExpectedFold(array, batch, ref_path, absent),
                        ctx, absent)

\* The files below dir, a directory's files before its subdirectories.
RECURSIVE ExpectedWalk(_, _)
ExpectedWalk(src, dir) ==
    LET loc == Locate(dir)
    IN IF loc = None \/ ~IsDir(loc[1]) THEN <<>>
       ELSE LET names == FS[loc[1]].names
                here == SelectSeq(names, LAMBDA n :
                           IsFile(Append(loc[1], n)) /\ AcceptsFile(src.file_pattern, n))
                down == SelectSeq(names, LAMBDA n :
                           /\ IsDir(Append(loc[1], n))
                           /\ (Truthy(src.dir_pattern) => FullMatch(src.dir_pattern[1], n)))
            IN [i \in 1..Len(here) |-> Format(Child(dir, here[i]))]
               \o Flatten([i \in 1..Len(down) |-> ExpectedWalk(src, Child(dir, down[i]))])

RECURSIVE ExpectedSource(_, _, _)
ExpectedSource(src, ctx, absent) ==
    CASE src.type = "text" -> src.texts
      [] src.type = "find" ->
            Flatten([i \in 1..Len(src.paths) |->
                ExpectedWalk(src, JoinPath(JoinPath(ResolveParent(ctx), ParsePath(src.base)),
                                           ParsePath(src.paths[i])))])
      [] src.type = "process" ->
            Flatten([i \in 1..Len(src.sources) |->
                LET texts == ExpectedSource(src.sources[i], ctx, absent)
                IN Flatten([j \in 1..Len(texts) |->
                       ExpectedFold(src.operations, <<texts[j]>>, ctx, absent)])])

(***************************************************************************)
(* The claims.                                                             *)
(***************************************************************************)

\* C1: when the evaluation of a source is through, the texts the consumer
\* received are, over the child sources in listed order and over each
\* child's texts in yielded order, the fold of the operation chain over the
\* singleton batch of the text, each batch the concatenation of the
\* per-text results in batch order; with no operation the texts are
\* yielded unchanged.
C1_ProcessSourceOrder ==
    pc = "done" => out = ExpectedSource(obj, ParsePath(this_path), FALSE)

\* A chain of two operations fanned a child's text out and the evaluation
\* finished with more texts than both children together gave.
C1_Witness ==
    /\ pc = "done"
    /\ obj.type = "process"
    /\ Len(obj.operations) = 2
    /\ obj.operations[1].type = "read_file"
    /\ obj.operations[2].type = "split_lines"
    /\ Len(obj.sources) = 2
    /\ Len(out) >= 4

\* C2: every operation loaded from a referenced file resolves its relative
\* paths against the directory of that file, nested references included,
\* and every operation of the configuration, among them each entry of a
\* reference's paths and the operations after a reference, resolves against
\* the directory of the caller's this_path.
C2_ReferenceRebinding ==
    \A r \in log.resolved :
        r.dir = IF r.origin = None
                THEN ResolveParent(ParsePath(this_path)).parts
                ELSE Front(r.origin[1])

\* A reference with two paths was followed by a read_file of the
\* configuration, and its chain held a nested reference whose read_file
\* resolved in another directory than the caller's.
C2_Witness ==
    /\ pc = "done"
    /\ \E r \in log.resolved : r.origin = None /\ r.kind = "ref" /\ r.pi = 2
    /\ \E r \in log.resolved : r.origin = None /\ r.kind = "read_file"
    /\ \E r \in log.resolved : r.origin # None /\ r.kind = "ref"
    /\ \E r \in log.resolved :
          /\ r.origin # None /\ r.kind = "read_file"
          /\ r.dir # ResolveParent(ParsePath(this_path)).parts

\* C3: StripOperation applied to the single output of StripOperation gives
\* that output again, for any chars and per_line.
C3_StripIdempotent == st.pc = "twice" => st.twice = st.once

Last(s) == s[Len(s)]

\* The texts of one call of _apply_replace: each the substitution of the
\* one before; with repeat the call returned at the first pass that changed
\* nothing, without repeat after one pass.
LoopHistory(h) ==
    /\ Len(h) >= 2
    /\ \A k \in 1..(Len(h) - 1) : h[k + 1] = Substitute(rep.op, h[k])
    /\ IF rep.op.repeat
       THEN /\ h[Len(h)] = h[Len(h) - 1]
            /\ \A k \in 1..(Len(h) - 2) : h[k + 1] # h[k]
       ELSE Len(h) = 2

\* Every pass that changed the text shortened it.
Contracting(h) == \A k \in 1..(Len(h) - 1) : h[k + 1] # h[k] => Len(h[k + 1]) < Len(h[k])

PassBound(h) == Contracting(h) => Len(h) - 1 <= Len(h[1]) + 1

\* C4: with repeat, _apply_replace substitutes into its own result and
\* returns at the first pass whose output is its input ("aaaa" with "aa" to
\* "a" gives "a"); while every changing pass shortens the text the number
\* of passes is at most the length of the text plus one and the next pass
\* can be taken; without repeat there is one pass; with per_line the loop
\* runs on every line and the results are joined with "\n".
C4_ReplaceFixedPoint ==
    rep.pc # "idle" =>
        /\ \A i \in 1..Len(rep.runs) :
              /\ LoopHistory(rep.runs[i])
              /\ PassBound(rep.runs[i])
              /\ rep.results[i] = Last(rep.runs[i])
        /\ rep.pc = "pass" =>
              /\ PassBound(rep.hist)
              /\ Contracting(rep.hist) => ENABLED ReplacePass
        /\ rep.pc = "done" =>
              LET lines == IF rep.op.per_line THEN SplitLines(rep.text, FALSE)
                           ELSE <<rep.text>>
              IN /\ Len(rep.runs) = Len(lines)
                 /\ \A i \in 1..Len(lines) : rep.runs[i][1] = lines[i]
                 /\ rep.out = IF rep.op.per_line
                              THEN <<Join(<<LF>>, [i \in 1..Len(lines) |-> Last(rep.runs[i])])>>
                              ELSE <<Last(rep.runs[1])>>
                 /\ (/\ rep.op = ReplaceOp(FALSE, <<"a", "a">>, <<"a">>, TRUE, FALSE)
                     /\ rep.text = <<"a", "a", "a", "a">>) => rep.out = <<<<"a">>>>

\* "aaaa" went through the repeated replacement of "aa" by "a" in three
\* passes.
C4_Witness ==
    /\ rep.pc = "done"
    /\ rep.op = ReplaceOp(FALSE, <<"a", "a">>, <<"a">>, TRUE, FALSE)
    /\ rep.text = <<"a", "a", "a", "a">>
    /\ Len(rep.runs[1]) = 4
    /\ rep.out = <<<<"a">>>>

Undecodable(c) ==
    c.op.type = "read_file" /\ ~Decodable(FS[c.file[1]], c.op)

\* C5: no UnicodeDecodeError leaves a read_file operation; a call on a file
\* the encoding cannot decode yields no text; and an evaluation that is
\* through has yielded what it would have yielded had the texts naming
\* such files not been in their batches.
C5_DecodeFailureSkipped ==
    /\ err # "decode"
    /\ \A c \in log.calls : Undecodable(c) => c.n = 0
    /\ pc = "done" => out = ExpectedSource(obj, ParsePath(this_path), TRUE)

\* Two files were skipped, one of them between two readable files of the
\* same evaluation, and the evaluation went on to its end.
C5_Witness ==
    /\ pc = "done"
    /\ log.warnings >= 2
    /\ \E c \in log.calls : Undecodable(c)
    /\ \E c \in log.calls : c.op.type = "read_file" /\ c.n = 1
    /\ Len(out) >= 2

\* C6: when a validation error is raised no operation has been applied, no
\* file has been opened by an operation and no text has been yielded.
C6_ValidationBeforeEvaluation ==
    (pc = "error" /\ err = "validation") =>
        /\ log.applied = 0
        /\ log.reads = 0
        /\ out = <<>>

\* C7: when the directory to walk, the referenced file or the file to read
\* is absent, the evaluation ends in an I/O error.
C7_AbsentTargetAborts ==
    log.absent # {} => (pc = "error" /\ err = "io")

FoundRel(f) == SubSeq(f.path.parts, Len(f.root.parts) + 1, Len(f.path.parts))

\* C8 as first stated: with a dir_pattern given, no directory a yielded
\* path lies under has a name that fails dir_pattern, and the file's name
\* matches a given file_pattern.
C8_NoPathUnderUnmatchedDir ==
    \A f \in log.found :
        LET parts == Resolve(f.path)
        IN /\ f.src.dir_pattern # None =>
                \A k \in 1..(Len(parts) - 1) : FullMatch(f.src.dir_pattern[1], parts[k])
           /\ f.src.file_pattern # None =>
                FullMatch(f.src.file_pattern[1], Last(parts))

\* C8: with a non-empty dir_pattern, every directory between the walked
\* directory (base/path) and a yielded file has a name that fully matches
\* dir_pattern; every yielded path names a file, whose name fully matches a
\* non-empty file_pattern.
C8_PrunedBelowWalkRoot ==
    \A f \in log.found :
        LET rel == FoundRel(f)
        IN /\ f.path.parts = f.root.parts \o rel
           /\ Len(rel) >= 1
           /\ Truthy(f.src.dir_pattern) =>
                \A k \in 1..(Len(rel) - 1) : FullMatch(f.src.dir_pattern[1], rel[k])
           /\ Truthy(f.src.file_pattern) =>
                FullMatch(f.src.file_pattern[1], Last(rel))
           /\ Locate(f.path) # None
           /\ IsFile(Locate(f.path)[1])

\* A walk with a dir_pattern pruned a directory that holds a file, and
\* yielded a file of a subdirectory it kept.
C8_Witness ==
    /\ \E f \in log.found : Truthy(f.src.dir_pattern) /\ Len(FoundRel(f)) >= 2
    /\ \E d \in log.pruned :
          /\ Locate(d) # None
          /\ \E n \in Range(FS[Locate(d)[1]].names) : IsFile(Append(Locate(d)[1], n))

\* C9: while the consumer holds the text a read_file call yielded, the
\* handle of that call is closed; no handle is open once the evaluation
\* has ended.
C9_HandleClosedAtYield ==
    /\ \A j \in 1..Len(calls) :
          (calls[j].kind = "read_file" /\ calls[j].pc = "yielded") =>
              \A h \in handles : h.id # calls[j].h
    /\ pc \in {"done", "error", "stopped"} => handles = {}

\* C10 as first stated: every call of an operation yields at least one
\* text.
C10_EveryCallYields == \A c \in log.calls : c.n >= 1

\* C10: a replace, strip or rstrip call yields exactly one text; a
\* split_lines call yields no text for the empty text and at least one
\* otherwise; a read_file call yields one text, or none for a file the
\* encoding cannot decode.
C10_OutputsPerCall ==
    \A c \in log.calls :
        CASE c.op.type \in {"replace", "strip", "rstrip"} -> c.n = 1
          [] c.op.type = "split_lines" -> (c.n = 0) = (c.text = <<>>)
          [] c.op.type = "read_file" -> c.n = IF Undecodable(c) THEN 0 ELSE 1
          [] OTHER -> TRUE

\* A split_lines call on the empty text and a read_file call on an
\* undecodable file yielded nothing; another call yielded two texts.
C10_Witness ==
    /\ \E c \in log.calls : c.op.type = "split_lines" /\ c.text = <<>> /\ c.n = 0
    /\ \E c \in log.calls : c.op.type = "split_lines" /\ c.n >= 2

====
